---- MODULE Spec2Model ----
(***************************************************************************)
(* dbrs: the fixed-width row codec (src/src/row.rs) and the paged          *)
(* in-memory table with its forward iterator (src/src/table.rs).           *)
(*                                                                         *)
(* A text is the sequence of its UTF-8 bytes (Rust's String::as_bytes), a  *)
(* byte buffer a sequence of numbers in 0..255.  Sequences are 1-based     *)
(* here and 0-based in the source: byte k of the source is element k+1.    *)
(* A u32 is kept as its two 16-bit halves [hi, lo], because TLC's integers  *)
(* stop at 2^31-1 and the ids of interest include 2^32-1.                  *)
(***************************************************************************)
EXTENDS Integers, Sequences, FiniteSets, TLC

VARIABLES
    table,      \* the Table: [pages, num_rows]
    rows,       \* history: the rows of the successful insert_row calls, in order
    iter,       \* the live TableIterator [position], or NoIter
    yielded,    \* history: the items the live iterator has returned so far
    call,       \* the last call made on the table: [op, arg]
    result,     \* what that call returned
    rec,        \* codec run: the Row handed to serialize
    buf,        \* codec run: the bytes serialize returned
    dec,        \* codec run: what deserialize returned for buf
    row_num,    \* addressing run: the argument of row_position
    pos         \* addressing run: the pair row_position returned

tvars == <<table, rows, iter, yielded, call, result>>
cvars == <<rec, buf, dec>>
pvars == <<row_num, pos>>
vars == <<table, rows, iter, yielded, call, result, rec, buf, dec, row_num, pos>>

---------------------------------------------------------------------------
\* Constants of the program.

ID_SIZE == 4
USERNAME_OFFSET == ID_SIZE
USERNAME_SIZE == 32
EMAIL_OFFSET == USERNAME_OFFSET + USERNAME_SIZE
EMAIL_SIZE == 255
ROW_SIZE == ID_SIZE + USERNAME_SIZE + EMAIL_SIZE

PAGE_SIZE == 4096
TABLE_MAX_PAGES == 100
ROWS_PER_PAGE == PAGE_SIZE \div ROW_SIZE

---------------------------------------------------------------------------
\* Rust's Result and Option values, and a panic (an unwrap of Err or None).

Ok(v) == [tag |-> "Ok", val |-> v]
Err(e) == [tag |-> "Err", err |-> e]
Some(v) == [tag |-> "Some", val |-> v]
None == [tag |-> "None"]
Panic == [tag |-> "Panic"]

\* Not values of the program: nothing has been returned yet; no iterator
\* is alive.
Idle == [tag |-> "Idle"]
NoIter == [tag |-> "NoIter"]

Min(a, b) == IF a <= b THEN a ELSE b

---------------------------------------------------------------------------
\* Row codec (row.rs).

\* u32::to_le_bytes: least significant byte first.
to_le_bytes(id) ==
    << id.lo % 256, id.lo \div 256, id.hi % 256, id.hi \div 256 >>

\* u32::from_le_bytes on a 4-byte array.
from_le_bytes(b) ==
    [hi |-> b[3] + 256 * b[4], lo |-> b[1] + 256 * b[2]]

\* Row::serialize: a zeroed ROW_SIZE buffer, the id in its first ID_SIZE
\* bytes, then the first min(USERNAME_SIZE, len) bytes of the username at
\* USERNAME_OFFSET and the first min(EMAIL_SIZE, len) bytes of the email at
\* EMAIL_OFFSET.  The cut is on bytes, wherever it falls.
serialize(row) ==
    LET id_bytes == to_le_bytes(row.id)
        username_size == Min(USERNAME_SIZE, Len(row.username))
        email_size == Min(EMAIL_SIZE, Len(row.email))
    IN  [i \in 1..ROW_SIZE |->
            IF i <= ID_SIZE THEN id_bytes[i]
            ELSE IF i > USERNAME_OFFSET /\ i <= USERNAME_OFFSET + username_size
                THEN row.username[i - USERNAME_OFFSET]
            ELSE IF i > EMAIL_OFFSET /\ i <= EMAIL_OFFSET + email_size
                THEN row.email[i - EMAIL_OFFSET]
            ELSE 0]

\* get_nul_position with unwrap_or(len - 1): a full field loses its last byte.
get_nul_position_short(str_bytes) ==
    IF \E k \in 1..Len(str_bytes) : str_bytes[k] = 0
    THEN (CHOOSE k \in 1..Len(str_bytes) :
            /\ str_bytes[k] = 0
            /\ \A j \in 1..(k - 1) : str_bytes[j] # 0) - 1
    ELSE Len(str_bytes) - 1

\* get_nul_position: the position of the first zero byte (the number of
\* bytes before it), or the length of the slice when it holds none.
get_nul_position(str_bytes) ==
    IF \E k \in 1..Len(str_bytes) : str_bytes[k] = 0
    THEN (CHOOSE k \in 1..Len(str_bytes) :
            /\ str_bytes[k] = 0
            /\ \A j \in 1..(k - 1) : str_bytes[j] # 0) - 1
    ELSE Len(str_bytes)

\* UTF-8, as std::str::from_utf8 accepts it.  The number of bytes of the
\* character a byte starts: 0 for a continuation byte (128..191) and for the
\* bytes that start nothing (192, 193, 245..255).
utf8_width(b) ==
    IF b < 128 THEN 1
    ELSE IF b \in 194..223 THEN 2
    ELSE IF b \in 224..239 THEN 3
    ELSE IF b \in 240..244 THEN 4
    ELSE 0

utf8_cont(bs, i) == i <= Len(bs) /\ bs[i] \in 128..191

\* A whole, well-formed character starts at bs[i]: no overlong form, no
\* surrogate, nothing above U+10FFFF.
utf8_char_at(bs, i) ==
    LET b == bs[i]
        w == utf8_width(b)
    IN  /\ w >= 1
        /\ i + w - 1 <= Len(bs)
        /\ w >= 2 =>
            bs[i + 1] \in (IF b = 224 THEN 160..191
                           ELSE IF b = 237 THEN 128..159
                           ELSE IF b = 240 THEN 144..191
                           ELSE IF b = 244 THEN 128..143
                           ELSE 128..191)
        /\ \A j \in (i + 2)..(i + w - 1) : utf8_cont(bs, j)

\* The bytes are a sequence of whole characters: every byte either starts
\* one, or is a continuation byte inside the one started 1, 2 or 3 bytes
\* before it.
utf8_valid(bs) ==
    \A i \in 1..Len(bs) :
        IF bs[i] \in 128..191
        THEN \E d \in 1..3 :
                /\ i - d >= 1
                /\ utf8_width(bs[i - d]) > d
                /\ \A j \in (i - d + 1)..(i - 1) : bs[j] \in 128..191
        ELSE utf8_char_at(bs, i)

\* std::str::from_utf8(..).map_err(|e| e.to_string()), then to_string().
from_utf8(bs) == IF utf8_valid(bs) THEN Ok(bs) ELSE Err("Utf8Error")

\* Row::deserialize.  Each `?` returns the first error met.
deserialize(bytes) ==
    IF Len(bytes) # ROW_SIZE THEN Err("Expected bytes array of size")
    ELSE
        LET id == from_le_bytes(SubSeq(bytes, 1, ID_SIZE))
            username_bytes ==
                SubSeq(bytes, USERNAME_OFFSET + 1, USERNAME_OFFSET + USERNAME_SIZE)
            username_end == get_nul_position(username_bytes)
            username == from_utf8(SubSeq(username_bytes, 1, username_end))
            email_bytes ==
                SubSeq(bytes, EMAIL_OFFSET + 1, EMAIL_OFFSET + EMAIL_SIZE)
            email_end == get_nul_position(email_bytes)
            email == from_utf8(SubSeq(email_bytes, 1, email_end))
        IN  IF username.tag = "Err" THEN username
            ELSE IF email.tag = "Err" THEN email
            ELSE Ok([id |-> id, username |-> username.val, email |-> email.val])

---------------------------------------------------------------------------
\* Rows used as inputs.  Every text is valid UTF-8, as a Rust String is.

Rep(b, n) == [i \in 1..n |-> b]

U32(hi, lo) == [hi |-> hi, lo |-> lo]

\* 0, 1, 258 (two different low bytes), 65536, 2^31 and 2^32-1.
Ids == { U32(0, 0), U32(0, 1), U32(0, 258), U32(1, 0), U32(32768, 0),
         U32(65535, 65535) }

EAcute == << 195, 169 >>                 \* U+00E9, two bytes
Euro == << 226, 130, 172 >>              \* U+20AC, three bytes

\* Texts around a field of `size` bytes: empty, short, multi-byte, with a
\* NUL inside, exactly filling the field (with and without a multi-byte
\* last character), one byte too long, well too long, and too long with the
\* cut inside a multi-byte character or right after one.
Texts(size) ==
    { << >>,
      << 106, 111 >>,
      EAcute \o << 64 >> \o Euro,
      << 97, 0, 98 >>,
      Rep(117, size),
      Rep(117, size - 2) \o EAcute,
      Rep(118, size + 1),
      Rep(119, size + 8),
      Rep(97, size - 1) \o EAcute,
      Rep(97, size - 2) \o Euro \o << 122 >>,
      Rep(97, size - 2) \o EAcute \o << 122, 122 >>,
      Rep(97, size - 1) \o << 0 >> \o Rep(98, 4) }

Usernames == Texts(USERNAME_SIZE)
Emails == Texts(EMAIL_SIZE)

Row(id, username, email) == [id |-> id, username |-> username, email |-> email]

\* Does the text fit its field, and is it free of NUL bytes?
Fits(row) == Len(row.username) <= USERNAME_SIZE /\ Len(row.email) <= EMAIL_SIZE
HasNul(text) == \E i \in 1..Len(text) : text[i] = 0
NulFree(row) == ~HasNul(row.username) /\ ~HasNul(row.email)

\* The first n bytes of a text.
Prefix(text, n) == SubSeq(text, 1, Min(n, Len(text)))

---------------------------------------------------------------------------
\* Codec runs: one Row, serialized and then deserialized.

TableIdle ==
    /\ table = [pages |-> << >>, num_rows |-> 0]
    /\ rows = << >>
    /\ iter = NoIter
    /\ yielded = << >>
    /\ call = [op |-> "new"]
    /\ result = Idle

CodecIdle == rec = Idle /\ buf = << >> /\ dec = Idle

PosIdle == row_num = 0 /\ pos = << >>

InitRow ==
    /\ rec \in { Row(id, u, e) : id \in Ids, u \in Usernames, e \in Emails }
    /\ buf = << >>
    /\ dec = Idle
    /\ TableIdle
    /\ PosIdle

Serialize ==
    /\ buf = << >>
    /\ buf' = serialize(rec)
    /\ UNCHANGED << rec, dec, tvars, pvars >>

Deserialize ==
    /\ buf # << >>
    /\ dec = Idle
    /\ dec' = deserialize(buf)
    /\ UNCHANGED << rec, buf, tvars, pvars >>

NextRow == Serialize \/ Deserialize

SpecRow == InitRow /\ [][NextRow]_vars

---------------------------------------------------------------------------
\* Row::from_string (row.rs): a line of text to a Row.

\* char::is_whitespace, as split_whitespace applies it: the width in bytes
\* of the White_Space character that starts at byte i of s, 0 when none
\* does (U+0009..U+000D, U+0020, U+0085, U+00A0, U+1680, U+2000..U+200A,
\* U+2028, U+2029, U+202F, U+205F, U+3000).
WsWidth(s, i) ==
    IF s[i] \in 9..13 \/ s[i] = 32 THEN 1
    ELSE IF i + 1 <= Len(s) /\ s[i] = 194 /\ s[i + 1] \in { 133, 160 } THEN 2
    ELSE IF i + 2 <= Len(s) /\ s[i] = 225 /\ s[i + 1] = 154 /\ s[i + 2] = 128 THEN 3
    ELSE IF i + 2 <= Len(s) /\ s[i] = 226 /\ s[i + 1] = 128
            /\ s[i + 2] \in (128..138) \cup { 168, 169, 175 } THEN 3
    ELSE IF i + 2 <= Len(s) /\ s[i] = 226 /\ s[i + 1] = 129 /\ s[i + 2] = 159 THEN 3
    ELSE IF i + 2 <= Len(s) /\ s[i] = 227 /\ s[i + 1] = 128 /\ s[i + 2] = 128 THEN 3
    ELSE 0

\* The bytes at which a word starts: a character that is not whitespace,
\* at the start of s or right after a whitespace character.
WordStarts(s) ==
    { i \in 1..Len(s) :
        /\ s[i] \notin 128..191
        /\ WsWidth(s, i) = 0
        /\ \/ i = 1
           \/ \E j \in 1..(i - 1) : WsWidth(s, j) > 0 /\ j + WsWidth(s, j) = i }

\* The last byte of the word that starts at byte i.
WordEnd(s, i) ==
    LET stops == { e \in (i + 1)..Len(s) : WsWidth(s, e) > 0 }
    IN  IF stops = { } THEN Len(s)
        ELSE (CHOOSE e \in stops : \A f \in stops : e <= f) - 1

\* s.split_whitespace().collect(): the words of s, in order.
split_whitespace(s) ==
    LET starts == WordStarts(s)
        nth(k) == CHOOSE i \in starts : Cardinality({ j \in starts : j < i }) = k - 1
    IN  [k \in 1..Cardinality(starts) |-> SubSeq(s, nth(k), WordEnd(s, nth(k)))]

\* The digit loop of u32::from_str: result = result * 10 + digit, checked;
\* v is the value so far, as [hi, lo].
RECURSIVE parse_digits(_, _, _)
parse_digits(digits, i, v) ==
    IF i > Len(digits) THEN Ok(v)
    ELSE IF digits[i] \notin 48..57 THEN Err("InvalidDigit")
    ELSE IF (v.hi * 10) + (((v.lo * 10) + (digits[i] - 48)) \div 65536) > 65535
        THEN Err("PosOverflow")
    ELSE parse_digits(digits, i + 1,
            U32((v.hi * 10) + (((v.lo * 10) + (digits[i] - 48)) \div 65536),
                ((v.lo * 10) + (digits[i] - 48)) % 65536))

\* words[0].parse::<u32>(): the empty text and a lone sign are errors, one
\* leading '+' is dropped (a '-' is not, u32 being unsigned), and what is
\* left is read digit by digit.
parse_u32(src) ==
    IF Len(src) = 0 THEN Err("Empty")
    ELSE IF Len(src) = 1 /\ src[1] \in { 43, 45 } THEN Err("InvalidDigit")
    ELSE IF src[1] = 43 THEN parse_digits(Tail(src), 1, U32(0, 0))
    ELSE parse_digits(src, 1, U32(0, 0))

\* from_string testing words.len() < 3: further words are ignored.
from_string_at_least_3(s) ==
    LET words == split_whitespace(s)
    IN  IF Len(words) < 3 THEN Err("Expected 3 fields")
        ELSE IF parse_u32(words[1]).tag = "Err" THEN Err("Invalid id")
        ELSE Ok(Row(parse_u32(words[1]).val, words[2], words[3]))

\* Row::from_string.
from_string(s) ==
    LET words == split_whitespace(s)
    IN  IF Len(words) # 3 THEN Err("Expected 3 fields")
        ELSE
            LET id == parse_u32(words[1])
            IN  IF id.tag = "Err" THEN Err("Invalid id")
                ELSE Ok(Row(id.val, words[2], words[3]))

\* The lines handed to from_string: words put together with whitespace.
\* IdWords: texts for the first word with the number each denotes, when it
\* is a decimal numeral (with or without '+') that fits in 32 bits: 1, 0,
\* 007, 65536, 305419896, 4294967295, 4294967296, eighteen 9s, 4294967295
\* after ten zeros, one, -1, 1.5, +5, +, -0, a full-width digit 1, +65536,
\* ++1, +-1.
IdWords ==
    { [text |-> << 49 >>, id |-> Some(U32(0, 1))],
      [text |-> << 48 >>, id |-> Some(U32(0, 0))],
      [text |-> << 48, 48, 55 >>, id |-> Some(U32(0, 7))],
      [text |-> << 54, 53, 53, 51, 54 >>, id |-> Some(U32(1, 0))],
      [text |-> << 51, 48, 53, 52, 49, 57, 56, 57, 54 >>, id |-> Some(U32(4660, 22136))],
      [text |-> << 52, 50, 57, 52, 57, 54, 55, 50, 57, 53 >>, id |-> Some(U32(65535, 65535))],
      [text |-> << 52, 50, 57, 52, 57, 54, 55, 50, 57, 54 >>, id |-> None],
      [text |-> Rep(57, 18), id |-> None],
      [text |-> Rep(48, 10) \o << 52, 50, 57, 52, 57, 54, 55, 50, 57, 53 >>,
       id |-> Some(U32(65535, 65535))],
      [text |-> << 111, 110, 101 >>, id |-> None],
      [text |-> << 45, 49 >>, id |-> None],
      [text |-> << 49, 46, 53 >>, id |-> None],
      [text |-> << 43, 53 >>, id |-> Some(U32(0, 5))],
      [text |-> << 43 >>, id |-> None],
      [text |-> << 45, 48 >>, id |-> None],
      [text |-> << 239, 188, 145 >>, id |-> None],
      [text |-> << 43, 54, 53, 53, 51, 54 >>, id |-> Some(U32(1, 0))],
      [text |-> << 43, 43, 49 >>, id |-> None],
      [text |-> << 43, 45, 49 >>, id |-> None] }

\* john, forty bytes (more than USERNAME_SIZE), a multi-byte word.
UserWords ==
    { << 106, 111, 104, 110 >>, Rep(85, USERNAME_SIZE + 8), EAcute \o Euro }

\* john@example.com, and EMAIL_SIZE + 1 bytes.
EmailWords ==
    { << 106, 111, 104, 110, 64, 101, 120, 97, 109, 112, 108, 101, 46, 99, 111, 109 >>,
      Rep(69, EMAIL_SIZE + 1) }

\* Word lists of 0, 1, 2, 3 and 4 words.
WordLists ==
    { << c.text, u, e >> : c \in IdWords, u \in UserWords, e \in EmailWords }
    \cup { << >>, << << 49 >> >>, << << 49 >>, << 106, 111 >> >>,
           << << 111, 110, 101 >>, << 106, 111 >> >>,
           << << 49 >>, << 106, 111 >>, << 120 >>, << 121 >> >>,
           << << 111, 110, 101 >>, << 106, 111 >>, << 120 >>, << 121 >> >> }

\* Whitespace around and between the words: single spaces; spaces, tabs and
\* a line end; U+00A0 and U+3000.
Layouts ==
    { [pre |-> << >>, sep |-> << 32 >>, post |-> << >>],
      [pre |-> << 32, 32 >>, sep |-> << 9, 32 >>, post |-> << 13, 10 >>],
      [pre |-> << >>, sep |-> << 194, 160 >>, post |-> << 227, 128, 128 >>] }

\* The line that holds the words w in layout l.
Line(w, l) ==
    l.pre
    \o (IF Len(w) >= 1 THEN w[1] ELSE << >>)
    \o (IF Len(w) >= 2 THEN l.sep \o w[2] ELSE << >>)
    \o (IF Len(w) >= 3 THEN l.sep \o w[3] ELSE << >>)
    \o (IF Len(w) >= 4 THEN l.sep \o w[4] ELSE << >>)
    \o l.post

InitParse ==
    /\ call \in { [op |-> "from_string", arg |-> Line(w, l), words |-> w] :
                    w \in WordLists, l \in Layouts }
    /\ result = Idle
    /\ table = [pages |-> << >>, num_rows |-> 0]
    /\ rows = << >>
    /\ iter = NoIter
    /\ yielded = << >>
    /\ CodecIdle
    /\ PosIdle

FromString ==
    /\ call.op = "from_string"
    /\ result = Idle
    /\ result' = from_string(call.arg)
    /\ UNCHANGED << table, rows, iter, yielded, call, cvars, pvars >>

NextParse == FromString

SpecParse == InitParse /\ [][NextParse]_vars

---------------------------------------------------------------------------
\* Paged table (table.rs).

\* Table::new: no page, no row.
NewTable == [pages |-> << >>, num_rows |-> 0]

num_pages(t) == Len(t.pages)
num_rows(t) == t.num_rows

\* add_page making the vector anew with its one page
\* (self.pages = vec![[0; PAGE_SIZE]]).
add_page_reset(t) == [t EXCEPT !.pages = << Rep(0, PAGE_SIZE) >>]

\* add_page pushing a page that is not zeroed ([0xFF; PAGE_SIZE]).
add_page_dirty(t) == [t EXCEPT !.pages = Append(@, Rep(255, PAGE_SIZE))]

\* Table::add_page: one more zeroed page at the end.
add_page(t) == [t EXCEPT !.pages = Append(@, Rep(0, PAGE_SIZE))]

\* row_position without the modulo: the offset runs on past the page.
row_position_no_mod(n) ==
    << n \div ROWS_PER_PAGE, n * ROW_SIZE >>

\* row_position spreading the slots over the whole page: the offset is
\* row_in_page * (PAGE_SIZE / ROWS_PER_PAGE).
row_position_stride(n) ==
    << n \div ROWS_PER_PAGE, (n % ROWS_PER_PAGE) * (PAGE_SIZE \div ROWS_PER_PAGE) >>

\* Table::row_position: << page number, byte offset in that page >>.
row_position(n) ==
    LET page_num == n \div ROWS_PER_PAGE
        row_in_page == n % ROWS_PER_PAGE
        byte_offset_in_page == row_in_page * ROW_SIZE
    IN  << page_num, byte_offset_in_page >>

\* insert_row storing at the start of the page (page[i] = *b).
insert_row_at_zero(t, row) ==
    LET page_num == t.num_rows \div ROWS_PER_PAGE
    IN  IF page_num > TABLE_MAX_PAGES
        THEN [table |-> t, ret |-> Err("Reached max number of pages")]
        ELSE
            LET t1 == IF page_num >= Len(t.pages)
                      THEN [t EXCEPT !.pages = Append(@, Rep(0, PAGE_SIZE))] ELSE t
                row_bytes == serialize(row)
            IN  [table |->
                    [pages |->
                        [t1.pages EXCEPT ![page_num + 1] =
                            row_bytes \o SubSeq(@, Len(row_bytes) + 1, PAGE_SIZE)],
                     num_rows |-> t1.num_rows + 1],
                 ret |-> Ok(<< >>)]

\* insert_row allocating the page first and then testing the number of
\* pages it has.
insert_row_alloc_first(t, row) ==
    LET page_num == t.num_rows \div ROWS_PER_PAGE
        byte_offset_in_page == (t.num_rows % ROWS_PER_PAGE) * ROW_SIZE
        t1 == IF page_num >= Len(t.pages)
              THEN [t EXCEPT !.pages = Append(@, Rep(0, PAGE_SIZE))] ELSE t
    IN  IF Len(t1.pages) > TABLE_MAX_PAGES
        THEN [table |-> t1, ret |-> Err("Reached max number of pages")]
        ELSE
            LET row_bytes == serialize(row)
            IN  [table |->
                    [pages |->
                        [t1.pages EXCEPT ![page_num + 1] =
                            SubSeq(@, 1, byte_offset_in_page)
                            \o row_bytes
                            \o SubSeq(@, byte_offset_in_page + Len(row_bytes) + 1,
                                      PAGE_SIZE)],
                     num_rows |-> t1.num_rows + 1],
                 ret |-> Ok(<< >>)]

\* insert_row allocating one page ahead (page_num + 1 >= self.pages.len()).
insert_row_alloc_ahead(t, row) ==
    LET page_num == t.num_rows \div ROWS_PER_PAGE
        byte_offset_in_page == (t.num_rows % ROWS_PER_PAGE) * ROW_SIZE
    IN  IF page_num > TABLE_MAX_PAGES
        THEN [table |-> t, ret |-> Err("Reached max number of pages")]
        ELSE
            LET t1 == IF page_num + 1 >= Len(t.pages)
                      THEN [t EXCEPT !.pages = Append(@, Rep(0, PAGE_SIZE))] ELSE t
                row_bytes == serialize(row)
            IN  [table |->
                    [pages |->
                        [t1.pages EXCEPT ![page_num + 1] =
                            SubSeq(@, 1, byte_offset_in_page)
                            \o row_bytes
                            \o SubSeq(@, byte_offset_in_page + Len(row_bytes) + 1,
                                      PAGE_SIZE)],
                     num_rows |-> t1.num_rows + 1],
                 ret |-> Ok(<< >>)]

\* insert_row building the page anew around the row
\* (let mut page = [0; PAGE_SIZE]; ...; self.pages[page_num] = page).
insert_row_fresh_page(t, row) ==
    LET page_num == t.num_rows \div ROWS_PER_PAGE
        byte_offset_in_page == (t.num_rows % ROWS_PER_PAGE) * ROW_SIZE
    IN  IF page_num > TABLE_MAX_PAGES
        THEN [table |-> t, ret |-> Err("Reached max number of pages")]
        ELSE
            LET t1 == IF page_num >= Len(t.pages)
                      THEN [t EXCEPT !.pages = Append(@, Rep(0, PAGE_SIZE))] ELSE t
                row_bytes == serialize(row)
            IN  [table |->
                    [pages |->
                        [t1.pages EXCEPT ![page_num + 1] =
                            Rep(0, byte_offset_in_page)
                            \o row_bytes
                            \o Rep(0, PAGE_SIZE - byte_offset_in_page - Len(row_bytes))],
                     num_rows |-> t1.num_rows + 1],
                 ret |-> Ok(<< >>)]

\* insert_row refusing a row whose username does not fit its field.
insert_row_reject_long(t, row) ==
    LET page_num == t.num_rows \div ROWS_PER_PAGE
        byte_offset_in_page == (t.num_rows % ROWS_PER_PAGE) * ROW_SIZE
    IN  IF page_num > TABLE_MAX_PAGES
        THEN [table |-> t, ret |-> Err("Reached max number of pages")]
        ELSE IF Len(row.username) > USERNAME_SIZE
        THEN [table |-> t, ret |-> Err("Username too long")]
        ELSE
            LET t1 == IF page_num >= Len(t.pages)
                      THEN [t EXCEPT !.pages = Append(@, Rep(0, PAGE_SIZE))] ELSE t
                row_bytes == serialize(row)
            IN  [table |->
                    [pages |->
                        [t1.pages EXCEPT ![page_num + 1] =
                            SubSeq(@, 1, byte_offset_in_page)
                            \o row_bytes
                            \o SubSeq(@, byte_offset_in_page + Len(row_bytes) + 1,
                                      PAGE_SIZE)],
                     num_rows |-> t1.num_rows + 1],
                 ret |-> Ok(<< >>)]

\* Table::insert_row: [table |-> the table after the call, ret |-> what the
\* call returned].  The page-count test comes first and returns before
\* anything is touched; get_mut(..).unwrap() and the indexed store panic
\* when the page or the byte is not there.  The loop stores row_bytes[i] at
\* byte_offset_in_page + i for every i: the page keeps its bytes before and
\* after those.
insert_row(t, row) ==
    LET p == row_position(t.num_rows)
        page_num == p[1]
        byte_offset_in_page == p[2]
    IN  IF page_num > TABLE_MAX_PAGES
        THEN [table |-> t, ret |-> Err("Reached max number of pages")]
        ELSE
            LET t1 == IF page_num >= Len(t.pages) THEN add_page(t) ELSE t
                row_bytes == serialize(row)
            IN  IF page_num >= Len(t1.pages)
                    \/ byte_offset_in_page + Len(row_bytes) > PAGE_SIZE
                THEN [table |-> t1, ret |-> Panic]
                ELSE [table |->
                        [pages |->
                            [t1.pages EXCEPT ![page_num + 1] =
                                SubSeq(@, 1, byte_offset_in_page)
                                \o row_bytes
                                \o SubSeq(@, byte_offset_in_page + Len(row_bytes) + 1,
                                          PAGE_SIZE)],
                         num_rows |-> t1.num_rows + 1],
                      ret |-> Ok(<< >>)]

\* Table::select_row: None when the page is not allocated; otherwise the
\* ROW_SIZE bytes of the slot, deserialized and unwrapped.
select_row(t, position) ==
    LET p == row_position(position)
        page_num == p[1]
        byte_offset_in_page == p[2]
    IN  IF page_num >= Len(t.pages) THEN None
        ELSE
            LET page == t.pages[page_num + 1]
                bytes == SubSeq(page, byte_offset_in_page + 1,
                                byte_offset_in_page + ROW_SIZE)
                row == deserialize(bytes)
            IN  IF row.tag = "Ok" THEN Some(row.val) ELSE Panic

\* iter starting at position 1.
table_iter_at_one(t) == [tag |-> "Iter", position |-> 1]

\* Table::iter and IntoIterator for &Table: a new iterator at position 0.
table_iter(t) == [tag |-> "Iter", position |-> 0]
into_iter(t) == [tag |-> "Iter", position |-> 0]

\* next testing position > num_rows: it reads one slot past the last row.
next_one_more(it, t) ==
    IF it.position > t.num_rows THEN [iter |-> it, ret |-> None]
    ELSE
        LET row == select_row(t, it.position)
        IN  IF row.tag = "Panic" THEN [iter |-> it, ret |-> Panic]
            ELSE [iter |-> [it EXCEPT !.position = @ + 1], ret |-> row]

\* TableIterator::next: [iter |-> the iterator after the call, ret |-> the
\* item].
next(it, t) ==
    IF it.position >= num_rows(t) THEN [iter |-> it, ret |-> None]
    ELSE
        LET row == select_row(t, it.position)
        IN  IF row.tag = "Panic" THEN [iter |-> it, ret |-> Panic]
            ELSE [iter |-> [it EXCEPT !.position = @ + 1], ret |-> row]

---------------------------------------------------------------------------
\* Table runs.

\* How far the runs go.
MaxFree == 2        \* the first MaxFree rows are any rows of RowList
MaxRows == 30       \* the bulk loads of Spec stop at MaxRows rows
MaxArg == 44        \* select_row is called with 0..MaxArg

\* The rows the callers insert.  GoodList: texts that fit their fields and
\* hold no NUL byte (plain; both fields exactly full, and the largest id;
\* all zero; multi-byte, and the id of the first row again; both fields
\* exactly full and ending in a multi-byte character).  BadList: both fields
\* too long (the email cut right after a character); a NUL inside each
\* text; a username cut inside a character; an email cut inside a character.
GoodList ==
    << Row(U32(0, 1), << 106, 111 >>, << 106, 111, 64, 120 >>),
       Row(U32(65535, 65535), Rep(117, USERNAME_SIZE), Rep(101, EMAIL_SIZE)),
       Row(U32(0, 0), << >>, << >>),
       Row(U32(0, 1), EAcute, Euro \o << 64, 120 >>),
       Row(U32(32768, 258), Rep(102, USERNAME_SIZE - 2) \o EAcute,
           Rep(103, EMAIL_SIZE - 3) \o Euro) >>

BadList ==
    << Row(U32(0, 258), Rep(76, USERNAME_SIZE + 8),
           Rep(77, EMAIL_SIZE - 2) \o EAcute \o << 122 >>),
       Row(U32(0, 7), << 97, 0, 98 >>, << 113, 0, 0 >>),
       Row(U32(0, 9), Rep(97, USERNAME_SIZE - 1) \o EAcute, << 111, 107 >>),
       Row(U32(1, 0), << 98, 111, 98 >>, Rep(120, EMAIL_SIZE - 1) \o Euro) >>

RowList == GoodList \o BadList

Rows == { RowList[k] : k \in 1..Len(RowList) }

\* The bulk loads: load 1 takes RowList round and round, load 2 GoodList.
Loads == << RowList, GoodList >>
LoadRow(w, n) == Loads[w][(n % Len(Loads[w])) + 1]
LoadRows(w, n) == [k \in 1..n |-> LoadRow(w, k - 1)]

Alive == result.tag # "Panic"

Init ==
    /\ table = NewTable
    /\ rows = << >>
    /\ iter = NoIter
    /\ yielded = << >>
    /\ call = [op |-> "new"]
    /\ result = Idle
    /\ CodecIdle
    /\ PosIdle

\* table.insert_row(&row).  &mut self: no iterator borrows the table.
InsertRow(row) ==
    /\ Alive
    /\ iter = NoIter
    /\ LET out == insert_row(table, row)
       IN  /\ table' = out.table
           /\ rows' = IF out.ret.tag = "Ok" THEN Append(rows, row) ELSE rows
           /\ result' = out.ret
    /\ call' = [op |-> "insert_row", arg |-> row]
    /\ UNCHANGED << iter, yielded, cvars, pvars >>

\* table.select_row(n), between iterations.  select_row only reads, so a
\* select that follows a select reaches nothing the first one does not: the
\* runs make one select at a time.
SelectRow(n) ==
    /\ Alive
    /\ iter = NoIter
    /\ call.op # "select_row"
    /\ result' = select_row(table, n)
    /\ call' = [op |-> "select_row", arg |-> n]
    /\ UNCHANGED << table, rows, iter, yielded, cvars, pvars >>

\* let mut it = table.iter();
TableIter ==
    /\ Alive
    /\ iter = NoIter
    /\ iter' = table_iter(table)
    /\ yielded' = << >>
    /\ call' = [op |-> "iter"]
    /\ result' = Idle
    /\ UNCHANGED << table, rows, cvars, pvars >>

\* for r in &table
TableIntoIter ==
    /\ Alive
    /\ iter = NoIter
    /\ iter' = into_iter(table)
    /\ yielded' = << >>
    /\ call' = [op |-> "into_iter"]
    /\ result' = Idle
    /\ UNCHANGED << table, rows, cvars, pvars >>

\* it.next()
IterNext ==
    /\ Alive
    /\ iter # NoIter
    /\ LET out == next(iter, table)
       IN  /\ iter' = out.iter
           /\ result' = out.ret
           /\ yielded' = IF out.ret.tag = "Some"
                         THEN Append(yielded, out.ret.val) ELSE yielded
    /\ call' = [op |-> "next"]
    /\ UNCHANGED << table, rows, cvars, pvars >>

\* The iterator goes out of scope.
IterDrop ==
    /\ Alive
    /\ iter # NoIter
    /\ iter' = NoIter
    /\ yielded' = << >>
    /\ call' = [op |-> "drop"]
    /\ result' = Idle
    /\ UNCHANGED << table, rows, cvars, pvars >>

\* The inserts of Spec: any MaxFree rows of RowList, or one of the bulk
\* loads up to MaxRows rows.
Inputs ==
    IF num_rows(table) < MaxFree THEN Rows
    ELSE IF num_rows(table) < MaxRows
        THEN { LoadRow(w, num_rows(table)) :
                w \in { v \in 1..Len(Loads) : rows = LoadRows(v, num_rows(table)) } }
    ELSE { }

Next ==
    \/ \E row \in Inputs : InsertRow(row)
    \/ \E n \in 0..MaxArg : SelectRow(n)
    \/ TableIter
    \/ TableIntoIter
    \/ IterNext
    \/ IterDrop

Spec == Init /\ [][Next]_vars

\* Bulk load 1 alone, from Table::new() as far as the table takes it.
NextFill == InsertRow(LoadRow(1, num_rows(table)))

SpecFill == Init /\ [][NextFill]_vars

---------------------------------------------------------------------------
\* Runs at capacity.  They start where SpecFill stands after StartRows
\* inserts, and from FreeFrom rows on the caller inserts any row of RowList.

StartRows == 1399
FreeFrom == 1412

\* insert_row of the rows lo..hi-1 of bulk load 1, one after the other, on
\* a table that holds lo rows.
RECURSIVE Fill(_, _, _)
Fill(t, lo, hi) ==
    IF hi <= lo \/ num_rows(t) # lo THEN t
    ELSE IF hi = lo + 1 THEN insert_row(t, LoadRow(1, lo)).table
    ELSE Fill(Fill(t, lo, (lo + hi) \div 2), (lo + hi) \div 2, hi)

InitFull ==
    /\ table = Fill(NewTable, 0, StartRows)
    /\ rows = LoadRows(1, StartRows)
    /\ iter = NoIter
    /\ yielded = << >>
    /\ call = [op |-> "insert_row", arg |-> LoadRow(1, StartRows - 1)]
    /\ result = Ok(<< >>)
    /\ CodecIdle
    /\ PosIdle

InputsFull ==
    IF num_rows(table) < FreeFrom THEN { LoadRow(1, num_rows(table)) }
    ELSE Rows

NextFull == \E row \in InputsFull : InsertRow(row)

SpecFull == InitFull /\ [][NextFull]_vars

\* The first state of SpecFull is the state of SpecFill after StartRows
\* inserts.
FillReachesFull == num_rows(table) = StartRows => InitFull

---------------------------------------------------------------------------
\* The command loop (main.rs).

INSERT_CMD == << 105, 110, 115, 101, 114, 116 >>
SELECT_CMD == << 115, 101, 108, 101, 99, 116 >>
EXIT_CMD == << 46, 101, 120, 105, 116 >>

\* str::trim: s without the whitespace characters at its two ends.
trim(s) ==
    LET keep == { i \in 1..Len(s) : s[i] \notin 128..191 /\ WsWidth(s, i) = 0 }
    IN  IF keep = { } THEN << >>
        ELSE
            LET first == CHOOSE i \in keep : \A j \in keep : i <= j
                last == CHOOSE i \in keep : \A j \in keep : j <= i
            IN  SubSeq(s, first, last + utf8_width(s[last]) - 1)

\* str::to_lowercase, on the ASCII letters: no other character has a
\* lower case that is a letter of INSERT_CMD or SELECT_CMD.
to_lowercase(s) ==
    SubSeq([i \in 1..Len(s) |-> IF s[i] \in 65..90 THEN s[i] + 32 ELSE s[i]],
           1, Len(s))

\* split_ascii_whitespace().next().unwrap_or(""): the first run of bytes
\* that are not space, tab, line feed, form feed or carriage return.
first_ascii_word(s) ==
    LET ws == { 32, 9, 10, 12, 13 }
        starts == { i \in 1..Len(s) : s[i] \notin ws }
    IN  IF starts = { } THEN << >>
        ELSE
            LET first == CHOOSE i \in starts : \A j \in starts : i <= j
                stops == { e \in (first + 1)..Len(s) : s[e] \in ws }
            IN  IF stops = { } THEN SubSeq(s, first, Len(s))
                ELSE SubSeq(s, first, (CHOOSE e \in stops : \A f \in stops : e <= f) - 1)

\* s[n..]: the text from byte n on; a panic when n is past the end or
\* inside a character.
slice_from(s, n) ==
    IF n > Len(s) \/ (n < Len(s) /\ s[n + 1] \in 128..191) THEN Panic
    ELSE Ok(SubSeq(s, n + 1, Len(s)))

\* args.trim().parse::<usize>(), usize being 64 bits wide: as parse_u32,
\* up to 18446744073709551615.  An index of ten digits or more is kept as
\* 10^9: the loop only compares it with num_rows.
parse_usize(src) ==
    LET digits == IF Len(src) > 0 /\ src[1] = 43 THEN Tail(src) ELSE src
        zeros == Cardinality({ i \in 1..Len(digits) : \A j \in 1..i : digits[j] = 48 })
        sig == SubSeq(digits, zeros + 1, Len(digits))
        max == << 49, 56, 52, 52, 54, 55, 52, 52, 48, 55, 51, 55, 48, 57, 53, 53,
                  49, 54, 49, 53 >>
    IN  IF Len(src) = 0 THEN Err("Empty")
        ELSE IF Len(digits) = 0 THEN Err("InvalidDigit")
        ELSE IF \E i \in 1..Len(digits) : digits[i] \notin 48..57 THEN Err("InvalidDigit")
        ELSE IF Len(sig) > Len(max) THEN Err("PosOverflow")
        ELSE IF Len(sig) = Len(max)
                /\ \E i \in 1..Len(sig) :
                    /\ sig[i] > max[i]
                    /\ \A j \in 1..(i - 1) : sig[j] = max[j]
            THEN Err("PosOverflow")
        ELSE IF Len(sig) > 9 THEN Ok(1000000000)
        ELSE Ok(parse_digits(sig, 1, U32(0, 0)).val.hi * 65536
                + parse_digits(sig, 1, U32(0, 0)).val.lo)

\* parse_statement: Ok of an Insert or a Select statement, or Err.
parse_statement(s) ==
    LET word == first_ascii_word(to_lowercase(trim(s)))
    IN  IF word = INSERT_CMD THEN
            LET rest == slice_from(s, Len(INSERT_CMD))
            IN  IF rest.tag = "Panic" THEN Panic
                ELSE
                    LET row == from_string(trim(rest.val))
                    IN  IF row.tag = "Ok" THEN Ok([kind |-> "Insert", row |-> row.val])
                        ELSE Err("Illegal insert statement")
        ELSE IF word = SELECT_CMD THEN
            LET rest == slice_from(s, Len(SELECT_CMD))
            IN  IF rest.tag = "Panic" THEN Panic
                ELSE Ok([kind |-> "Select", args |-> trim(rest.val)])
        ELSE Err("Unknown statement")

\* What a line leaves behind: the text printed, or the end of the process.
Printed(msg) == [tag |-> "Printed", msg |-> msg]
PrintedRows(rs) == [tag |-> "Printed", msg |-> "rows", rows |-> rs]
Exit == [tag |-> "Exit"]

\* print_table_row.
print_table_row(t, row_idx) ==
    IF num_rows(t) = 0 THEN Printed("Table is empty, nothing to print for index")
    ELSE IF row_idx >= num_rows(t) THEN Printed("Row index out of bounds")
    ELSE
        LET row == select_row(t, row_idx)
        IN  IF row.tag = "Some" THEN PrintedRows(<< row.val >>) ELSE Panic

\* do_process_statement: [table |-> the table after it, ret |-> what it
\* left behind].  A select without argument prints
\* select_row(i).unwrap() for every i below num_rows, as far as it gets.
do_process_statement(statement, t) ==
    IF statement.kind = "Insert" THEN
        LET out == insert_row(t, statement.row)
        IN  [table |-> out.table,
             ret |-> IF out.ret.tag = "Ok" THEN Printed("Row inserted successfully")
                     ELSE IF out.ret.tag = "Err" THEN Printed("Error inserting row")
                     ELSE Panic]
    ELSE IF trim(statement.args) = << >> THEN
        [table |-> t,
         ret |-> IF \E i \in 0..(num_rows(t) - 1) : select_row(t, i).tag # "Some"
                 THEN Panic
                 ELSE PrintedRows([i \in 1..num_rows(t) |-> select_row(t, i - 1).val])]
    ELSE
        LET row_idx == parse_usize(trim(statement.args))
        IN  [table |-> t,
             ret |-> IF row_idx.tag = "Ok" THEN print_table_row(t, row_idx.val)
                     ELSE Printed("Error printing row for input")]

\* do_meta_command.
do_meta_command(command) ==
    IF command = EXIT_CMD THEN Exit ELSE Printed("Unknown command")

\* handle_input.
handle_input(input, t) ==
    IF Len(input) > 0 /\ input[1] = 46 THEN [table |-> t, ret |-> do_meta_command(input)]
    ELSE
        LET statement == parse_statement(input)
        IN  IF statement.tag = "Ok" THEN do_process_statement(statement.val, t)
            ELSE IF statement.tag = "Err" THEN [table |-> t, ret |-> Printed("Error")]
            ELSE [table |-> t, ret |-> Panic]

\* The loop takes lines until the table holds MaxCliRows rows.
MaxCliRows == 2

\* The lines typed, as the bytes read_line reads.
CliLines ==
    {
      \* ".exit"
      << 46, 101, 120, 105, 116 >>,
      \* ".help"
      << 46, 104, 101, 108, 112 >>,
      \* ""
      << >>,
      \* "foo bar"
      << 102, 111, 111, 32, 98, 97, 114 >>,
      \* "insert 1 john john@example.com"
      << 105, 110, 115, 101, 114, 116, 32, 49, 32, 106, 111, 104, 110, 32, 106, 111, 104, 110, 64, 101, 120, 97, 109, 112, 108, 101, 46, 99, 111, 109 >>,
      \* "INSERT 2 \xe9\u20ac x" (upper-case command, multi-byte username)
      << 73, 78, 83, 69, 82, 84, 32, 50, 32, 195, 169, 226, 130, 172, 32, 120 >>,
      \* "insert 9 ..." (username of 33 bytes, the 32nd the first of a two-byte character)
      << 105, 110, 115, 101, 114, 116, 32, 57, 32, 97, 97, 97, 97, 97, 97, 97, 97, 97, 97, 97, 97, 97, 97, 97, 97, 97, 97, 97, 97, 97, 97, 97, 97, 97, 97, 97, 97, 97, 97, 97, 195, 169, 32, 111, 107 >>,
      \* "insert 7 ..." (username of 40 bytes)
      << 105, 110, 115, 101, 114, 116, 32, 55, 32, 76, 76, 76, 76, 76, 76, 76, 76, 76, 76, 76, 76, 76, 76, 76, 76, 76, 76, 76, 76, 76, 76, 76, 76, 76, 76, 76, 76, 76, 76, 76, 76, 76, 76, 76, 76, 76, 76, 76, 76, 32, 108, 111, 110, 103, 64, 120 >>,
      \* "insert one john j@x"
      << 105, 110, 115, 101, 114, 116, 32, 111, 110, 101, 32, 106, 111, 104, 110, 32, 106, 64, 120 >>,
      \* "insert 1 john"
      << 105, 110, 115, 101, 114, 116, 32, 49, 32, 106, 111, 104, 110 >>,
      \* "insert"
      << 105, 110, 115, 101, 114, 116 >>,
      \* "select"
      << 115, 101, 108, 101, 99, 116 >>,
      \* "select 0"
      << 115, 101, 108, 101, 99, 116, 32, 48 >>,
      \* "select 1"
      << 115, 101, 108, 101, 99, 116, 32, 49 >>,
      \* "select 7"
      << 115, 101, 108, 101, 99, 116, 32, 55 >>,
      \* "select abc"
      << 115, 101, 108, 101, 99, 116, 32, 97, 98, 99 >>,
      \* "select 99999999999999999999999"
      << 115, 101, 108, 101, 99, 116, 32, 57, 57, 57, 57, 57, 57, 57, 57, 57, 57, 57, 57, 57, 57, 57, 57, 57, 57, 57, 57, 57, 57, 57 >>,
      \* "\tselect  0 \r\n" (as read, before the trim)
      << 9, 115, 101, 108, 101, 99, 116, 32, 32, 48, 32, 13, 10 >>,
      \* "selection 0"
      << 115, 101, 108, 101, 99, 116, 105, 111, 110, 32, 48 >> }

\* One turn of the loop of main: read_line (which trims the line), then
\* handle_input.
HandleInput(line) ==
    /\ Alive
    /\ result.tag # "Exit"
    /\ LET out == handle_input(trim(line), table)
       IN  /\ num_rows(out.table) <= MaxCliRows
           /\ table' = out.table
           /\ rows' = IF num_rows(out.table) > num_rows(table)
                      THEN Append(rows, parse_statement(trim(line)).val.row)
                      ELSE rows
           /\ result' = out.ret
    /\ call' = [op |-> "line", arg |-> line]
    /\ UNCHANGED << iter, yielded, cvars, pvars >>

NextCli == \E line \in CliLines : HandleInput(line)

SpecCli == Init /\ [][NextCli]_vars

---------------------------------------------------------------------------
\* Addressing runs: row_position on one row number.

MaxRowNum == 1500

InitPos ==
    /\ row_num \in 0..MaxRowNum
    /\ pos = << >>
    /\ TableIdle
    /\ CodecIdle

RowPosition ==
    /\ pos = << >>
    /\ pos' = row_position(row_num)
    /\ UNCHANGED << row_num, tvars, cvars >>

NextPos == RowPosition

SpecPos == InitPos /\ [][NextPos]_vars

---------------------------------------------------------------------------
\* The claims.

Good(row) == Fits(row) /\ NulFree(row)

\* select_row(i) hands back exactly `row`.
Selects(i, row) ==
    LET r == select_row(table, i) IN r.tag = "Some" /\ r.val = row

\* C1, as claimed: every Row whose username is at most USERNAME_SIZE bytes
\* and whose email is at most EMAIL_SIZE bytes comes back from
\* deserialize(serialize(r)) as Ok(r).
C1_RoundTripAsClaimed ==
    (dec.tag # "Idle" /\ Fits(rec)) => (dec.tag = "Ok" /\ dec.val = rec)

\* C1, amended: every Row whose texts fit their fields and hold no NUL byte
\* comes back from deserialize(serialize(r)) as Ok(r), equal in id, username
\* and email.
C1_RoundTrip ==
    (dec.tag # "Idle" /\ Good(rec)) => (dec.tag = "Ok" /\ dec.val = rec)

\* A Row with the largest id and both fields exactly full has made the
\* round trip.
C1_Witness ==
    /\ dec.tag = "Ok"
    /\ dec.val = rec
    /\ rec.id = U32(65535, 65535)
    /\ Len(rec.username) = USERNAME_SIZE
    /\ Len(rec.email) = EMAIL_SIZE
    /\ NulFree(rec)

\* C2, as claimed: when every inserted row fits its fields, select_row(i)
\* returns Some(R_i) for every i below num_rows, in every state.
C2_ReadYourWritesAsClaimed ==
    (\A k \in 1..Len(rows) : Fits(rows[k]))
        => \A i \in 0..(num_rows(table) - 1) : Selects(i, rows[i + 1])

\* C2, amended: in every state, for every i below num_rows whose row R_i
\* fits its fields and holds no NUL byte, select_row(i) returns Some(R_i),
\* whatever was inserted before and after it.
C2_ReadYourWrites ==
    /\ num_rows(table) = Len(rows)
    /\ \A i \in 0..(num_rows(table) - 1) :
        Good(rows[i + 1]) => Selects(i, rows[i + 1])

\* select_row has returned a row of the third page, equal to the one
\* inserted there.
C2_Witness ==
    /\ call.op = "select_row"
    /\ call.arg >= 2 * ROWS_PER_PAGE
    /\ call.arg < num_rows(table)
    /\ Good(rows[call.arg + 1])
    /\ result.tag = "Some"
    /\ result.val = rows[call.arg + 1]

\* C3, as claimed: the table never holds more than TABLE_MAX_PAGES *
\* ROWS_PER_PAGE rows nor more than TABLE_MAX_PAGES pages, the insert that
\* finds it that full failing.
C3_CapacityAsClaimed ==
    /\ num_rows(table) <= TABLE_MAX_PAGES * ROWS_PER_PAGE
    /\ num_pages(table) <= TABLE_MAX_PAGES

\* C4: an insert_row that returns Err leaves the table as it was: the same
\* num_rows, the same pages with the same bytes.
C4_FailedInsertNoMutation ==
    [][(call'.op = "insert_row" /\ result'.tag = "Err")
        => (table' = table /\ rows' = rows)]_vars

\* insert_row has returned Err on a table that holds rows.
C4_Witness ==
    /\ call.op = "insert_row"
    /\ result.tag = "Err"
    /\ num_rows(table) > 0
    /\ num_pages(table) > 0

\* C5, as claimed: an iterator over a table built by N inserts yields the N
\* inserted rows in order and then None.
C5_IterationAsClaimed ==
    iter.tag = "Iter" =>
        /\ Len(yielded) <= Len(rows)
        /\ yielded = SubSeq(rows, 1, Len(yielded))
        /\ call.op = "next" =>
            /\ result.tag \in { "Some", "None" }
            /\ result.tag = "None" => Len(yielded) = Len(rows)

\* C5, amended: when every inserted row fits its fields and holds no NUL
\* byte, an iterator from iter() or into_iter() yields the N inserted rows
\* in order, and None only after all N; on the empty table the first next()
\* is None.
C5_Iteration ==
    (iter.tag = "Iter" /\ \A k \in 1..Len(rows) : Good(rows[k])) =>
        /\ iter.position = Len(yielded)
        /\ Len(yielded) <= Len(rows)
        /\ yielded = SubSeq(rows, 1, Len(yielded))
        /\ call.op = "next" =>
            /\ result.tag \in { "Some", "None" }
            /\ result.tag = "None" => Len(yielded) = Len(rows)
            /\ result.tag = "Some" => result.val = rows[Len(yielded)]

\* An iterator has run over more than a page of rows and returned None.
C5_Witness ==
    /\ iter.tag = "Iter"
    /\ call.op = "next"
    /\ result.tag = "None"
    /\ Len(rows) > ROWS_PER_PAGE
    /\ yielded = rows
    /\ \A k \in 1..Len(rows) : Good(rows[k])

\* The first next() on the empty table has returned None.
C5_WitnessEmpty ==
    /\ iter.tag = "Iter"
    /\ call.op = "next"
    /\ result.tag = "None"
    /\ rows = << >>

\* C6, as claimed: no call on the table panics, whatever valid UTF-8 texts
\* were inserted.
C6_NoPanicAsClaimed == result.tag # "Panic"

\* C7, as claimed: select_row(n) returns None exactly when the page of n is
\* not allocated, and Some row whenever it is.
C7_SelectAsClaimed ==
    call.op = "select_row" =>
        /\ result.tag = "None" <=> call.arg \div ROWS_PER_PAGE >= num_pages(table)
        /\ call.arg \div ROWS_PER_PAGE < num_pages(table) => result.tag = "Some"

\* C8: row_position(n) = (n / 14, (n % 14) * 291) for every n, 14 being
\* floor(PAGE_SIZE / ROW_SIZE); so (0,0) for 0, (1,0) for 14, (1, 10*291)
\* for 24 and (TABLE_MAX_PAGES + 1, 0) for (TABLE_MAX_PAGES + 1) * 14.
C8_Addressing ==
    /\ ROWS_PER_PAGE = 14
    /\ PAGE_SIZE \div ROW_SIZE = 14
    /\ pos # << >> =>
        /\ pos = << row_num \div 14, (row_num % 14) * 291 >>
        /\ row_num = 0 => pos = << 0, 0 >>
        /\ row_num = 14 => pos = << 1, 0 >>
        /\ row_num = 24 => pos = << 1, 10 * 291 >>
        /\ row_num = (TABLE_MAX_PAGES + 1) * 14 => pos = << TABLE_MAX_PAGES + 1, 0 >>

\* row_position has answered for the first row past the last page insert
\* accepts.
C8_Witness ==
    /\ row_num = (TABLE_MAX_PAGES + 1) * 14
    /\ pos = << TABLE_MAX_PAGES + 1, 0 >>

\* C9, as claimed: a Row whose username is longer than USERNAME_SIZE bytes
\* deserializes, after serialize, to its first USERNAME_SIZE bytes, and one
\* whose email is longer than EMAIL_SIZE bytes to its first EMAIL_SIZE bytes;
\* the id and the other field, when it fits, come back as they were.
C9_TruncationAsClaimed ==
    dec.tag # "Idle" =>
        /\ Len(rec.username) > USERNAME_SIZE =>
            /\ dec.tag = "Ok"
            /\ dec.val.username = Prefix(rec.username, USERNAME_SIZE)
            /\ dec.val.id = rec.id
            /\ (Len(rec.email) <= EMAIL_SIZE /\ ~HasNul(rec.email))
                => dec.val.email = rec.email
        /\ Len(rec.email) > EMAIL_SIZE =>
            /\ dec.tag = "Ok"
            /\ dec.val.email = Prefix(rec.email, EMAIL_SIZE)
            /\ dec.val.id = rec.id
            /\ (Len(rec.username) <= USERNAME_SIZE /\ ~HasNul(rec.username))
                => dec.val.username = rec.username

\* C10, as claimed: deserialize never fails on what serialize wrote.
C10_NoInvalidEncodingAsClaimed == dec.tag # "Err"

\* A run of decimal digits.
IsDigits(word) == Len(word) > 0 /\ \A i \in 1..Len(word) : word[i] \in 48..57

\* 4294967295, the largest u32, in digits.
MaxU32Text == << 52, 50, 57, 52, 57, 54, 55, 50, 57, 53 >>

\* Does a run of digits denote a number of at most 2^32 - 1?  Leading
\* zeros aside, it is shorter than MaxU32Text or as long and not after it.
FitsU32(word) ==
    LET zeros == Cardinality({ i \in 1..Len(word) : \A j \in 1..i : word[j] = 48 })
        sig == SubSeq(word, zeros + 1, Len(word))
    IN  \/ Len(sig) < Len(MaxU32Text)
        \/ /\ Len(sig) = Len(MaxU32Text)
           /\ \/ sig = MaxU32Text
              \/ \E i \in 1..Len(sig) :
                    /\ sig[i] < MaxU32Text[i]
                    /\ \A j \in 1..(i - 1) : sig[j] = MaxU32Text[j]

\* An unsigned integer that fits in 32 bits: digits only.
Unsigned(word) == IsDigits(word) /\ FitsU32(word)

\* The same, or one '+' and then such digits.
UnsignedOrPlus(word) ==
    \/ Unsigned(word)
    \/ Len(word) > 1 /\ word[1] = 43 /\ Unsigned(Tail(word))

\* The number the first word denotes.
IdOf(word) == (CHOOSE c \in IdWords : c.text = word).id.val

\* C11, as claimed: from_string returns Err exactly when the line does not
\* hold 3 words or the first word is not an unsigned integer that fits in
\* 32 bits; otherwise it returns the Row of that id with the second and
\* third words as username and email, unchanged whatever their length.
C11_FromStringAsClaimed ==
    (call.op = "from_string" /\ result # Idle) =>
        /\ result.tag = "Err" <=>
            (Len(call.words) # 3 \/ ~Unsigned(call.words[1]))
        /\ result.tag = "Ok" =>
            result.val = Row(IdOf(call.words[1]), call.words[2], call.words[3])

\* C11, amended: from_string returns Err exactly when the line does not
\* hold 3 words or the first word is not a run of decimal digits, with or
\* without one '+' before it, whose value fits in 32 bits; otherwise it
\* returns the Row of that id with the second and third words as username
\* and email, unchanged whatever their length.
C11_FromString ==
    (call.op = "from_string" /\ result # Idle) =>
        /\ result.tag = "Err" <=>
            (Len(call.words) # 3 \/ ~UnsignedOrPlus(call.words[1]))
        /\ result.tag = "Ok" =>
            result.val = Row(IdOf(call.words[1]), call.words[2], call.words[3])

\* from_string has returned the Row of the largest id with a username and
\* an email longer than their fields, from a line laid out with tabs.
C11_Witness ==
    /\ call.op = "from_string"
    /\ result.tag = "Ok"
    /\ result.val.id = U32(65535, 65535)
    /\ Len(result.val.username) > USERNAME_SIZE
    /\ Len(result.val.email) > EMAIL_SIZE
    /\ call.arg[1] = 32

\* The slot of row number n: its page (counted from 1) and its first and
\* last byte in that page (counted from 1).
SlotPage(n) == (n \div ROWS_PER_PAGE) + 1
SlotFirst(n) == ((n % ROWS_PER_PAGE) * ROW_SIZE) + 1
SlotLast(n) == ((n % ROWS_PER_PAGE) * ROW_SIZE) + ROW_SIZE

\* The Row of id 0 and empty texts.
ZeroRow == Row(U32(0, 0), << >>, << >>)

\* C12: the table only grows.  In every step num_rows and num_pages do not
\* decrease and every page other than the one insert_row writes to stays
\* as it is; an insert_row that returns Ok adds exactly 1 to num_rows and 0
\* or 1 to num_pages.
C12_OnlyGrows ==
    [][/\ num_rows(table') >= num_rows(table)
       /\ num_pages(table') >= num_pages(table)
       /\ \A p \in 1..num_pages(table) :
            p # SlotPage(num_rows(table)) => table'.pages[p] = table.pages[p]
       /\ (call'.op = "insert_row" /\ result'.tag = "Ok") =>
            /\ num_rows(table') = num_rows(table) + 1
            /\ num_pages(table') - num_pages(table) \in { 0, 1 }
       /\ call'.op # "insert_row" => table' = table]_vars

\* An insert_row has returned Ok and allocated the third page.
C12_Witness ==
    /\ call.op = "insert_row"
    /\ result.tag = "Ok"
    /\ num_rows(table) = (2 * ROWS_PER_PAGE) + 1
    /\ num_pages(table) = 3

\* C13: in every state, every slot n with num_rows <= n <
\* num_pages * ROWS_PER_PAGE holds zero bytes only, and select_row(n)
\* returns Some(Row { id: 0, username: "", email: "" }).
C13_UnwrittenSlotsZero ==
    \A n \in num_rows(table)..((num_pages(table) * ROWS_PER_PAGE) - 1) :
        /\ \A i \in SlotFirst(n)..SlotLast(n) : table.pages[SlotPage(n)][i] = 0
        /\ select_row(table, n) = Some(ZeroRow)

\* select_row has returned the zero Row for a slot past the last row of a
\* table that holds rows.
C13_Witness ==
    /\ call.op = "select_row"
    /\ num_rows(table) > 0
    /\ call.arg >= num_rows(table)
    /\ call.arg < num_pages(table) * ROWS_PER_PAGE
    /\ result = Some(ZeroRow)

\* C14: a table starts with no page and no row, and in every state
\* num_pages = ceil(num_rows / ROWS_PER_PAGE); the page of the next insert
\* is at most num_pages.
C14_LazyAllocation ==
    /\ num_pages(table) = (num_rows(table) + ROWS_PER_PAGE - 1) \div ROWS_PER_PAGE
    /\ row_position(num_rows(table))[1] <= num_pages(table)
    /\ call.op = "new" => (num_pages(table) = 0 /\ num_rows(table) = 0)

\* The first page has just been filled: one page, and the next insert will
\* need the page after it.
C14_Witness ==
    /\ call.op = "insert_row"
    /\ num_rows(table) = ROWS_PER_PAGE
    /\ num_pages(table) = 1
    /\ row_position(num_rows(table))[1] = num_pages(table)

\* C15: next(), select_row and the making and dropping of an iterator
\* leave the table as it is; a new iterator starts at position 0; and what
\* an iterator has yielded so far is, item for item, what select_row
\* returns for positions 0, 1, ... of the table, so that two passes over
\* the same table yield the same.
C15_ReadOnlyRestartable ==
    /\ [](iter.tag = "Iter" =>
            /\ iter.position = Len(yielded)
            /\ \A k \in 1..Len(yielded) : Selects(k - 1, yielded[k]))
    /\ [][/\ call'.op \in { "next", "select_row", "iter", "into_iter", "drop" }
                => table' = table
          /\ call'.op \in { "iter", "into_iter" }
                => (iter'.position = 0 /\ yielded' = << >>)]_vars

\* An iterator has gone through a table that holds a row it gives back
\* cut, and has returned None.
C15_Witness ==
    /\ iter.tag = "Iter"
    /\ call.op = "next"
    /\ result.tag = "None"
    /\ Len(yielded) = num_rows(table)
    /\ Len(yielded) > 0
    /\ yielded # rows

\* C16: in every state, the PAGE_SIZE - ROWS_PER_PAGE * ROW_SIZE = 22 bytes
\* at the end of every page are zero.
C16_PaddingZero ==
    /\ PAGE_SIZE - (ROWS_PER_PAGE * ROW_SIZE) = 22
    /\ \A p \in 1..num_pages(table) :
        \A i \in ((ROWS_PER_PAGE * ROW_SIZE) + 1)..PAGE_SIZE : table.pages[p][i] = 0

\* The last slot of the first page holds a row whose email fills its
\* field: the byte before the padding is not zero.
C16_Witness ==
    /\ num_rows(table) > ROWS_PER_PAGE
    /\ Len(rows[ROWS_PER_PAGE].email) >= EMAIL_SIZE
    /\ table.pages[1][ROWS_PER_PAGE * ROW_SIZE] # 0

\* C18: the slot row_position gives for a row number lies inside one page
\* (byte_offset + ROW_SIZE <= PAGE_SIZE), and the slots of two different
\* row numbers of the same page do not overlap.
C18_SlotsDisjoint ==
    pos # << >> =>
        /\ pos[2] >= 0
        /\ pos[2] + ROW_SIZE <= PAGE_SIZE
        /\ \A m \in 0..MaxRowNum :
            (m # row_num /\ row_position(m)[1] = pos[1]) =>
                \/ row_position(m)[2] + ROW_SIZE <= pos[2]
                \/ pos[2] + ROW_SIZE <= row_position(m)[2]

\* row_position has answered for the last slot of a page, which ends
\* below the end of the page.
C18_Witness ==
    /\ pos # << >>
    /\ row_num % ROWS_PER_PAGE = ROWS_PER_PAGE - 1
    /\ row_num > ROWS_PER_PAGE
    /\ pos[2] + ROW_SIZE = PAGE_SIZE - 22

\* C19: an insert_row that returns Ok writes serialize(row) into the slot
\* of row number num_rows (as it was before the call) and leaves every
\* other byte of that page, and every other page, as it was (a page it has
\* just allocated being all zero outside the slot).
C19_InsertFrame ==
    [][(call'.op = "insert_row" /\ result'.tag = "Ok") =>
        LET n == num_rows(table)
            before == IF SlotPage(n) <= num_pages(table)
                      THEN table.pages[SlotPage(n)] ELSE Rep(0, PAGE_SIZE)
            after == table'.pages[SlotPage(n)]
        IN  /\ SubSeq(after, SlotFirst(n), SlotLast(n)) = serialize(call'.arg)
            /\ \A i \in 1..PAGE_SIZE :
                (i < SlotFirst(n) \/ i > SlotLast(n)) => after[i] = before[i]
            /\ \A p \in 1..num_pages(table) :
                p # SlotPage(n) => table'.pages[p] = table.pages[p]]_vars

\* An insert_row has written the second slot of the second page, the
\* first slot of that page holding a row that is not all zero.
C19_Witness ==
    /\ call.op = "insert_row"
    /\ result.tag = "Ok"
    /\ num_rows(table) = ROWS_PER_PAGE + 2
    /\ \E i \in 1..ROW_SIZE : table.pages[2][i] # 0

\* C20: whether insert_row succeeds does not depend on the row: in every
\* state every row of RowList (two of which have the same id) gets the
\* same answer, Ok or Err, as the one inserted; and an insert_row that
\* follows a failed insert_row fails.
C20_FullIsPermanent ==
    [][call'.op = "insert_row" =>
        /\ \A r \in Rows : insert_row(table, r).ret.tag = result'.tag
        /\ (call.op = "insert_row" /\ result.tag = "Err") => result'.tag = "Err"]_vars

\* insert_row has refused a row on a table whose last row has the id of
\* the row refused.
C20_Witness ==
    /\ call.op = "insert_row"
    /\ result.tag = "Err"
    /\ num_rows(table) > 0
    /\ rows[Len(rows)].id = call.arg.id
    /\ rows[Len(rows)] # call.arg

\* C17, as claimed: no line makes the process panic, and no line other
\* than .exit ends it.
C17_LoopAsClaimed ==
    call.op = "line" =>
        /\ result.tag # "Panic"
        /\ result.tag = "Exit" => trim(call.arg) = EXIT_CMD

====
